---- MODULE Spec2Model ----
\* Model of the dispatch core of amethyst_renderer (src/src/renderer/src/lib.rs):
\* the pass registry (Renderer::passes), registration (Renderer::add_pass) and
\* frame submission (Renderer::submit).
EXTENDS Integers, Sequences, FiniteSets, TLC

\* ---------------------------------------------------------------- bounds
MaxLayers == 2
MaxConfigs == 2
MaxLeftover == 1

\* ---------------------------------------------------------------- kinds
None == "None"

\* Option<T>: NoneOpt, or Some(x) with Unwrap(Some(x)) = x.
NoneOpt == <<>>
Some(x) == <<x>>
Unwrap(o) == o[1]

ConfigKinds == {"ClearConfig", "DrawConfig"}
TargetKinds == {"ColorTarget", "DepthTarget"}
DrawValues == {"a", "b"}
TargetNames == {"main", "aux"}

\* A Box<PassDescription>: a value of some concrete configuration type, a
\* ClearConfig without fields or a DrawConfig with one field.
Configs ==
    {[kind |-> "ClearConfig", value |-> "unit"]} \cup [kind : {"DrawConfig"}, value : DrawValues]

\* The statically typed passes that can be handed to add_pass. Each is bound by
\* its type to one (Arg, Target) pair; "writes" is the value its apply stores.
PassNames == {"Clear", "ClearAlt", "DrawSolid"}

PassArg(p) ==
    CASE p = "Clear" -> "ClearConfig"
      [] p = "ClearAlt" -> "ClearConfig"
      [] p = "DrawSolid" -> "DrawConfig"

PassTarget(p) ==
    CASE p = "Clear" -> "ColorTarget"
      [] p = "ClearAlt" -> "ColorTarget"
      [] p = "DrawSolid" -> "ColorTarget"

PassWrites(p) ==
    CASE p = "Clear" -> "zero"
      [] p = "ClearAlt" -> "alt"
      [] p = "DrawSolid" -> "one"

\* TypeId::of::<K>() and mopa::Any::get_type_id: an opaque tag, one per type.
TypeIdOf(k) == <<"TypeId", k>>
GetTypeId(x) == TypeIdOf(x.kind)

\* ---------------------------------------------------------------- frames
\* Layer: a target name and a Vec of boxed pass descriptions, at most b of them.
LayersUpTo(b) == [target : TargetNames, passes : UNION {[1..n -> Configs] : n \in 0..b}]

\* The Vec<Layer> values of n layers holding at most b descriptions in all.
RECURSIVE LayerSeqsOf(_, _)
LayerSeqsOf(n, b) ==
    IF n = 0
    THEN {<<>>}
    ELSE UNION {{<<l>> \o rest : rest \in LayerSeqsOf(n - 1, b - Len(l.passes))} :
                l \in LayersUpTo(b)}

\* The DrawConfigs of a layer vector in (layer, pass) order.
RECURSIVE DrawsOf(_)
DrawsOf(ls) ==
    IF ls = <<>>
    THEN <<>>
    ELSE SelectSeq(Head(ls).passes, LAMBDA c : c.kind = "DrawConfig") \o DrawsOf(Tail(ls))

\* Frame::layers. Nothing branches on the field of a DrawConfig (it is only
\* copied), so of two layer vectors that differ by exchanging the two draw
\* values one is kept: the one whose first DrawConfig holds "a".
LayerSeqs ==
    {ls \in UNION {LayerSeqsOf(n, MaxConfigs) : n \in 0..MaxLayers} :
        DrawsOf(ls) # <<>> => DrawsOf(ls)[1].value = "a"}

\* Frame::targets: HashMap<String, Box<Target>>, here name -> target kind. Of
\* the maps that differ only by exchanging the two names one is kept (the layer
\* vectors range over both names).
TargetMaps ==
    {tm \in UNION {[ns -> TargetKinds] : ns \in SUBSET TargetNames} :
        /\ "aux" \in DOMAIN tm => "main" \in DOMAIN tm
        /\ DOMAIN tm = TargetNames => ~(tm["main"] = "DepthTarget" /\ tm["aux"] = "ColorTarget")}

Frames == [layers : LayerSeqs, targets : TargetMaps]

\* Frame::new()
EmptyFrame == [layers |-> <<>>, targets |-> <<>>]

\* ---------------------------------------------------------------- state
VARIABLES
    passes,          \* Renderer::passes, a set of (key, value) map entries
    command_buffer,  \* Renderer::command_buffer, the commands encoded so far
    frame,           \* the Frame handed to submit
    store,           \* backing store of each target of the frame
    device,          \* the Device handed to submit
    pc,              \* position of the caller / of submit
    li,              \* index of the layer the outer loop is at
    pi,              \* index of the pass description the inner loop is at
    fb,              \* the target resolved for the current layer
    err,             \* the panic submit stopped with
    trace,           \* history: handler invocations, flush and cleanup, in order
    lastReg,         \* history: kind pair -> pass of the latest add_pass for it
    registered       \* history: the passes add_pass was ever called with

vars == <<passes, command_buffer, frame, store, device, pc, li, pi, fb, err, trace, lastReg, registered>>

KindPairs == ConfigKinds \X TargetKinds

NoErr == [kind |-> None, target |-> None, pass |-> <<>>]
NewDevice == [submitted |-> <<>>, flushes |-> 0, cleanups |-> 0]
Stale == "stale"

\* The events recorded in trace.
Invoked(p, a, t) == [op |-> "pass", pass |-> p, arg |-> <<a>>, target |-> <<t>>]
Flushed == [op |-> "flush", pass |-> None, arg |-> <<>>, target |-> <<>>]
Cleaned == [op |-> "cleanup", pass |-> None, arg |-> <<>>, target |-> <<>>]

\* ---------------------------------------------------------------- HashMap
\* (mutation of HashMapInsert: the entry of an equal key is kept)
HashMapInsertKeep(m, k, v) == m \cup {[key |-> k, value |-> v]}

\* (mutation of HashMapInsert: the map is emptied before the entry goes in)
HashMapInsertOnly(m, k, v) == {[key |-> k, value |-> v]}

\* HashMap::insert: the entry of an equal key is replaced.
HashMapInsert(m, k, v) == {e \in m : e.key # k} \cup {[key |-> k, value |-> v]}

\* HashMap::get: Some(value) of the entry with that key, or None.
HashMapGet(m, k) ==
    IF \E e \in m : e.key = k THEN Some((CHOOSE e \in m : e.key = k).value) ELSE NoneOpt

\* ---------------------------------------------------------------- passes
\* Pass::apply of pass p on (a, t): what it appends to the encoder and what it
\* leaves in the target's backing store.
Marker(p, a, t) == [pass |-> p, arg |-> a, target |-> t.name]
ApplyEncoder(p, a, t, encoder) == Append(encoder, Marker(p, a, t))
ApplyStore(p, a, t, st) == [st EXCEPT ![t.name] = PassWrites(p)]

\* downcast_ref::<K>(): Some(the value) if its concrete type is K, else None.
DowncastRef(x, k) == IF GetTypeId(x) = TypeIdOf(k) THEN Some(x) ELSE NoneOpt

\* (mutation of PassId: the two type ids are exchanged)
PassIdSwapped(p) == <<TypeIdOf(PassTarget(p)), TypeIdOf(PassArg(p))>>

\* The key add_pass computes for a pass of type P: Pass<Arg=A, Target=T>.
PassId(p) == <<TypeIdOf(PassArg(p)), TypeIdOf(PassTarget(p))>>

\* (mutation of DispatchId: the key depends on the value of the description)
DispatchIdByValue(desc, t) ==
    IF desc.value = "b"
    THEN <<TypeIdOf("ClearConfig"), GetTypeId(t)>>
    ELSE <<GetTypeId(desc), GetTypeId(t)>>

\* (mutation of DispatchId: the concrete type of the target is not looked at)
DispatchIdAnyTarget(desc, t) == <<GetTypeId(desc), TypeIdOf("ColorTarget")>>

\* The key submit computes for a description and the resolved target.
DispatchId(desc, t) == <<GetTypeId(desc), GetTypeId(t)>>

\* The panic message of the unmatched-pass branch: target={} pass={:?}.
DebugFmt(desc) == <<desc.kind, "{", desc.value, "}">>

\* (mutation of NoPassPanic: the message leaves the target name out)
NoPassPanicNoTarget(layer, desc) ==
    [kind |-> "NoPass", target |-> None, pass |-> DebugFmt(desc)]

NoPassPanic(layer, desc) ==
    [kind |-> "NoPass", target |-> layer.target, pass |-> DebugFmt(desc)]

\* The panic of Option::unwrap() on None: a fixed message.
UnwrapPanic == [kind |-> "UnwrapNone", target |-> None, pass |-> <<>>]

\* frame.targets.get(&layer.target)
ResolveTarget(f, name) ==
    IF name \in DOMAIN f.targets
    THEN Some([kind |-> f.targets[name], name |-> name])
    ELSE NoneOpt

\* ---------------------------------------------------------------- Init
Init ==
    /\ passes = {}
    /\ command_buffer = <<>>
    /\ frame = EmptyFrame
    /\ store = <<>>
    /\ device = NewDevice
    /\ pc = "idle"
    /\ li = 0
    /\ pi = 0
    /\ fb = NoneOpt
    /\ err = NoErr
    /\ trace = <<>>
    /\ lastReg = [k \in KindPairs |-> None]
    /\ registered = {}

\* ---------------------------------------------------------------- add_pass
AddPass(p) ==
    /\ pc = "idle"
    /\ passes' = HashMapInsert(passes, PassId(p), p)
    /\ lastReg' = [lastReg EXCEPT ![<<PassArg(p), PassTarget(p)>>] = p]
    /\ registered' = registered \cup {p}
    /\ UNCHANGED <<command_buffer, frame, store, device, pc, li, pi, fb, err, trace>>

\* ---------------------------------------------------------------- submit
\* The call: submit(&frame, &mut device).
BeginSubmit(f) ==
    /\ pc = "idle"
    /\ frame' = f
    /\ store' = [n \in DOMAIN f.targets |-> Stale]
    /\ device' = NewDevice
    /\ trace' = <<>>
    /\ err' = NoErr
    /\ li' = 1
    /\ pi' = 0
    /\ fb' = NoneOpt
    /\ pc' = "layer"
    /\ UNCHANGED <<passes, command_buffer, lastReg, registered>>

\* The caller submits some frame.
Submit ==
    /\ pc = "idle"
    /\ \E f \in Frames : BeginSubmit(f)

\* The element the loops are at: `for layer in &frame.layers` and
\* `for desc in &layer.passes` visit the vectors front to back.
LayerAtBackToFront(f, l) == f.layers[Len(f.layers) + 1 - l]
LayerAt(f, l) == f.layers[l]
DescAtBackToFront(layer, p) == layer.passes[Len(layer.passes) + 1 - p]
DescAt(layer, p) == layer.passes[p]

\* (mutation of EndLayers: the flush is left out)
EndLayersNoFlush ==
    /\ pc = "layer"
    /\ li > Len(frame.layers)
    /\ pc' = "cleanup"
    /\ UNCHANGED <<passes, command_buffer, frame, store, device, li, pi, fb, err, trace, lastReg, registered>>

\* `for layer in &frame.layers` is exhausted: on to the flush.
EndLayers ==
    /\ pc = "layer"
    /\ li > Len(frame.layers)
    /\ pc' = "flush"
    /\ UNCHANGED <<passes, command_buffer, frame, store, device, li, pi, fb, err, trace, lastReg, registered>>

\* frame.targets.get(&layer.target) is Some: fb is bound, the inner loop starts.
EnterLayer ==
    /\ pc = "layer"
    /\ li <= Len(frame.layers)
    /\ LET t == ResolveTarget(frame, LayerAt(frame, li).target) IN
       /\ t # NoneOpt
       /\ fb' = t
    /\ pi' = 1
    /\ pc' = "pass"
    /\ UNCHANGED <<passes, command_buffer, frame, store, device, li, err, trace, lastReg, registered>>

\* (mutation of MissingTarget: the layer is skipped)
MissingTargetSkip ==
    /\ pc = "layer"
    /\ li <= Len(frame.layers)
    /\ ResolveTarget(frame, LayerAt(frame, li).target) = NoneOpt
    /\ li' = li + 1
    /\ UNCHANGED <<passes, command_buffer, frame, store, device, pc, pi, fb, err, trace, lastReg, registered>>

\* (mutation of MissingTarget: the target is resolved only when the first pass
\* of the layer needs it, so a layer without passes is passed over)
MissingTargetLazy ==
    /\ pc = "layer"
    /\ li <= Len(frame.layers)
    /\ ResolveTarget(frame, LayerAt(frame, li).target) = NoneOpt
    /\ IF LayerAt(frame, li).passes = <<>>
       THEN /\ li' = li + 1
            /\ UNCHANGED <<pc, err>>
       ELSE /\ pc' = "panicked"
            /\ err' = UnwrapPanic
            /\ li' = li
    /\ UNCHANGED <<passes, command_buffer, frame, store, device, pi, fb, trace, lastReg, registered>>

\* frame.targets.get(&layer.target) is None: unwrap() panics.
MissingTarget ==
    /\ pc = "layer"
    /\ li <= Len(frame.layers)
    /\ ResolveTarget(frame, LayerAt(frame, li).target) = NoneOpt
    /\ pc' = "panicked"
    /\ err' = UnwrapPanic
    /\ UNCHANGED <<passes, command_buffer, frame, store, device, li, pi, fb, trace, lastReg, registered>>

\* (mutation of EndPasses: the outer loop does not advance)
EndPassesSameLayer ==
    /\ pc = "pass"
    /\ pi > Len(LayerAt(frame, li).passes)
    /\ pc' = "layer"
    /\ UNCHANGED <<passes, command_buffer, frame, store, device, li, pi, fb, err, trace, lastReg, registered>>

\* `for desc in &layer.passes` is exhausted: on to the next layer.
EndPasses ==
    /\ pc = "pass"
    /\ pi > Len(LayerAt(frame, li).passes)
    /\ li' = li + 1
    /\ pc' = "layer"
    /\ UNCHANGED <<passes, command_buffer, frame, store, device, pi, fb, err, trace, lastReg, registered>>

\* self.passes.get(&id) for the description the inner loop is at.
Lookup == HashMapGet(passes, DispatchId(DescAt(LayerAt(frame, li), pi), Unwrap(fb)))

\* (mutation of InvokePass: the thunk is taken out of the map, as with
\* self.passes.remove(&id) in place of get)
InvokePassRemove ==
    /\ pc = "pass"
    /\ pi <= Len(LayerAt(frame, li).passes)
    /\ Lookup # NoneOpt
    /\ LET pass == Unwrap(Lookup)
           a == DescAt(LayerAt(frame, li), pi)
           t == Unwrap(fb)
       IN  /\ command_buffer' = ApplyEncoder(pass, a, t, command_buffer)
           /\ store' = ApplyStore(pass, a, t, store)
           /\ trace' = Append(trace, Invoked(pass, a, t))
           /\ passes' = {e \in passes : e.key # DispatchId(a, t)}
    /\ pi' = pi + 1
    /\ UNCHANGED <<frame, device, pc, li, fb, err, lastReg, registered>>

\* self.passes.get(&id) is Some(pass): the thunk downcasts both arguments
\* (unwrap() panics on a failed downcast) and applies its pass.
InvokePass ==
    /\ pc = "pass"
    /\ pi <= Len(LayerAt(frame, li).passes)
    /\ Lookup # NoneOpt
    /\ LET pass == Unwrap(Lookup)
           a == DowncastRef(DescAt(LayerAt(frame, li), pi), PassArg(pass))
           t == DowncastRef(Unwrap(fb), PassTarget(pass))
       IN  IF a = NoneOpt \/ t = NoneOpt
           THEN /\ pc' = "panicked"
                /\ err' = UnwrapPanic
                /\ UNCHANGED <<pi, command_buffer, store, trace>>
           ELSE /\ command_buffer' = ApplyEncoder(pass, Unwrap(a), Unwrap(t), command_buffer)
                /\ store' = ApplyStore(pass, Unwrap(a), Unwrap(t), store)
                /\ trace' = Append(trace, Invoked(pass, Unwrap(a), Unwrap(t)))
                /\ pi' = pi + 1
                /\ UNCHANGED <<pc, err>>
    /\ UNCHANGED <<passes, frame, device, li, fb, lastReg, registered>>

\* (mutation of NoPassFound: the miss is reported and the loop goes on)
NoPassSkip ==
    /\ pc = "pass"
    /\ pi <= Len(LayerAt(frame, li).passes)
    /\ Lookup = NoneOpt
    /\ pi' = pi + 1
    /\ err' = NoPassPanic(LayerAt(frame, li), DescAt(LayerAt(frame, li), pi))
    /\ UNCHANGED <<passes, command_buffer, frame, store, device, pc, li, fb, trace, lastReg, registered>>

\* self.passes.get(&id) is None: panic!("No pass implementation found ...").
NoPassFound ==
    /\ pc = "pass"
    /\ pi <= Len(LayerAt(frame, li).passes)
    /\ Lookup = NoneOpt
    /\ pc' = "panicked"
    /\ err' = NoPassPanic(LayerAt(frame, li), DescAt(LayerAt(frame, li), pi))
    /\ UNCHANGED <<passes, command_buffer, frame, store, device, li, pi, fb, trace, lastReg, registered>>

\* self.command_buffer.flush(device): the encoded commands go to the device
\* and the encoder is reset.
Flush ==
    /\ pc = "flush"
    /\ device' = [device EXCEPT !.submitted = device.submitted \o command_buffer,
                                !.flushes = device.flushes + 1]
    /\ command_buffer' = <<>>
    /\ trace' = Append(trace, Flushed)
    /\ pc' = "cleanup"
    /\ UNCHANGED <<passes, frame, store, li, pi, fb, err, lastReg, registered>>

\* device.cleanup()
Cleanup ==
    /\ pc = "cleanup"
    /\ device' = [device EXCEPT !.cleanups = device.cleanups + 1]
    /\ trace' = Append(trace, Cleaned)
    /\ pc' = "done"
    /\ UNCHANGED <<passes, command_buffer, frame, store, li, pi, fb, err, lastReg, registered>>

\* submit returns to its caller.
Return ==
    /\ pc = "done"
    /\ pc' = "idle"
    /\ frame' = EmptyFrame
    /\ store' = <<>>
    /\ device' = NewDevice
    /\ trace' = <<>>
    /\ li' = 0
    /\ pi' = 0
    /\ fb' = NoneOpt
    /\ UNCHANGED <<passes, command_buffer, err, lastReg, registered>>

Next ==
    \/ \E p \in PassNames : AddPass(p)
    \/ Submit
    \/ EndLayers
    \/ EnterLayer
    \/ MissingTarget
    \/ EndPasses
    \/ InvokePass
    \/ NoPassFound
    \/ Flush
    \/ Cleanup
    \/ Return

Spec == Init /\ [][Next]_vars

\* submit is one synchronous call and the handlers return: a step of it that
\* can be taken is taken.
SubmitStep ==
    \/ EndLayers
    \/ EnterLayer
    \/ MissingTarget
    \/ EndPasses
    \/ InvokePass
    \/ NoPassFound
    \/ Flush
    \/ Cleanup

SpecFair == Spec /\ WF_vars(SubmitStep)

\* The panic of submit unwinds to a caller that catches it and goes on using
\* the renderer: nothing on the way out touches the renderer's fields. (The
\* caller is followed only while the encoder holds at most MaxLeftover
\* commands.)
Recover ==
    /\ pc = "panicked"
    /\ Len(command_buffer) <= MaxLeftover
    /\ pc' = "idle"
    /\ frame' = EmptyFrame
    /\ store' = <<>>
    /\ device' = NewDevice
    /\ trace' = <<>>
    /\ err' = NoErr
    /\ li' = 0
    /\ pi' = 0
    /\ fb' = NoneOpt
    /\ UNCHANGED <<passes, command_buffer, lastReg, registered>>

NextRecover ==
    \/ Next
    \/ Recover

\* The renderer with callers that survive a panicked submit.
SpecRecover == Init /\ [][NextRecover]_vars

\* ================================================================ properties
\* The (description, target name) pairs of a layer vector in layer order and,
\* within a layer, in pass order.
RECURSIVE Flat(_)
Flat(ls) ==
    IF ls = <<>>
    THEN <<>>
    ELSE [j \in 1..Len(Head(ls).passes) |->
             [arg |-> Head(ls).passes[j], target |-> Head(ls).target]]
         \o Flat(Tail(ls))

IsPass(e) == e.op = "pass"
PassEvents == SelectSeq(trace, IsPass)
KindOfTarget(name) == frame.targets[name]

\* Every layer's target resolves and every pair met is registered.
AllResolve == \A l \in 1..Len(frame.layers) : frame.layers[l].target \in DOMAIN frame.targets
AllRegistered ==
    \A l \in 1..Len(frame.layers) : \A j \in 1..Len(frame.layers[l].passes) :
        frame.layers[l].target \in DOMAIN frame.targets =>
            lastReg[<<frame.layers[l].passes[j].kind,
                      KindOfTarget(frame.layers[l].target)>>] # None
Submitting == pc \in {"layer", "pass", "flush", "cleanup", "done", "panicked"}
LoopsDone == pc \in {"flush", "cleanup", "done"}

\* The commands the device or the encoder holds for this submission.
Stream == IF pc \in {"cleanup", "done"} THEN device.submitted ELSE command_buffer

\* C1: for a frame whose layer targets all resolve and whose kind pairs are all
\* registered, submit never aborts, the handler invocations made so far are a
\* prefix of the frame's descriptions in (layer, pass) order, once the loops
\* are over they are exactly that sequence, each description dispatched once
\* against its layer's target, and the markers in the command stream are in
\* that same order.
C1_DispatchOrder ==
    (Submitting /\ AllResolve /\ AllRegistered) =>
        LET exp == Flat(frame.layers)
            got == PassEvents
        IN  /\ pc # "panicked"
            /\ Len(got) <= Len(exp)
            /\ LoopsDone => Len(got) = Len(exp)
            /\ \A i \in 1..Len(got) :
                   /\ got[i].arg = <<exp[i].arg>>
                   /\ Unwrap(got[i].target).name = exp[i].target
            /\ Len(Stream) = Len(got)
            /\ \A i \in 1..Len(got) :
                   Stream[i] = Marker(got[i].pass, exp[i].arg, [name |-> exp[i].target])

\* C1 witness: two layers of one pass each, and one layer of two different
\* descriptions, have been submitted to completion.
C1_Witness ==
    /\ pc = "done"
    /\ Len(frame.layers) = 2
    /\ Len(frame.layers[1].passes) = 1
    /\ Len(frame.layers[2].passes) = 1
    /\ frame.layers[1].passes[1] # frame.layers[2].passes[1]
    /\ Len(device.submitted) = 2

\* The number of descriptions that come before description p of layer l.
Before(l, p) == Len(Flat(SubSeq(frame.layers, 1, l - 1))) + p - 1

\* The registry key of a kind pair, and whether some add_pass was for the pair.
KeyOf(k) == <<TypeIdOf(k[1]), TypeIdOf(k[2])>>
EverRegistered(k) == \E p \in registered : <<PassArg(p), PassTarget(p)>> = k
NoDeviceWork ==
    /\ device = NewDevice
    /\ \A i \in 1..Len(trace) : IsPass(trace[i])

\* C2: a kind pair no add_pass was ever made for has no registry entry, and a
\* submission that meets such a pair stops there: the handlers invoked are
\* exactly those of the descriptions before it, nothing is invoked for it or
\* after it, and neither the flush nor the cleanup is performed.
C2_MissAborts ==
    /\ \A k \in KindPairs : ~EverRegistered(k) => HashMapGet(passes, KeyOf(k)) = NoneOpt
    /\ err.kind = "NoPass" =>
           /\ pc = "panicked"
           /\ ~EverRegistered(<<DescAt(LayerAt(frame, li), pi).kind, Unwrap(fb).kind>>)
           /\ Len(PassEvents) = Before(li, pi)
           /\ NoDeviceWork

\* C2 witness: a submission stopped on an unregistered pair in its second
\* layer, after a handler had run.
C2_Witness ==
    /\ pc = "panicked"
    /\ err.kind = "NoPass"
    /\ li = 2
    /\ Len(PassEvents) = 1
    /\ Len(frame.layers[1].passes) = 1

\* The first layer whose target name is absent from the target collection.
MissingLayers == {l \in 1..Len(frame.layers) : frame.layers[l].target \notin DOMAIN frame.targets}
FirstMissing == CHOOSE l \in MissingLayers : \A m \in MissingLayers : l <= m

\* C3: when a layer names a target absent from the frame's targets, no pass of
\* that layer or of a later one is ever invoked and neither flush nor cleanup
\* is performed; when submit stops on that layer, the passes of all earlier
\* layers have been invoked, in order.
C3_MissingTargetAborts ==
    (Submitting /\ MissingLayers # {}) =>
        /\ Len(PassEvents) <= Before(FirstMissing, 1)
        /\ NoDeviceWork
        /\ pc \notin {"flush", "cleanup", "done"}
        /\ li <= FirstMissing
        /\ (pc = "panicked" /\ err.kind = "UnwrapNone") =>
               /\ li = FirstMissing
               /\ Len(PassEvents) = Before(FirstMissing, 1)
               /\ \A i \in 1..Len(PassEvents) :
                      /\ PassEvents[i].arg = <<Flat(frame.layers)[i].arg>>
                      /\ Unwrap(PassEvents[i].target).name = Flat(frame.layers)[i].target

\* C3 witness: submit stopped on a second layer with an absent target after the
\* pass of the first layer had run, a later pass still pending.
C3_Witness ==
    /\ pc = "panicked"
    /\ err.kind = "UnwrapNone"
    /\ li = 2
    /\ Len(PassEvents) = 1
    /\ Len(frame.layers[2].passes) = 1

\* C4: a submission that gets through all its layers performs the flush once
\* and then the cleanup once, both after the last handler invocation, and
\* neither is performed before the loops are over; a frame without layers or
\* with empty layers is no exception.
C4_FlushThenCleanup ==
    LET n == Len(trace) IN
    /\ pc \in {"layer", "pass", "flush"} => NoDeviceWork
    /\ pc = "cleanup" =>
           /\ n >= 1 /\ trace[n] = Flushed
           /\ \A i \in 1..(n - 1) : IsPass(trace[i])
           /\ device.flushes = 1 /\ device.cleanups = 0
    /\ pc = "done" =>
           /\ n >= 2 /\ trace[n - 1] = Flushed /\ trace[n] = Cleaned
           /\ \A i \in 1..(n - 2) : IsPass(trace[i])
           /\ n - 2 = Len(Flat(frame.layers))
           /\ device.flushes = 1 /\ device.cleanups = 1

\* C4 witness: a completed submission of an empty layer followed by a layer
\* with passes.
C4_Witness ==
    /\ pc = "done"
    /\ Len(frame.layers) = 2
    /\ frame.layers[1].passes = <<>>
    /\ Len(frame.layers[2].passes) = 2
    /\ device.flushes = 1

\* C5: the registry never holds two entries for one key, add_pass reports no
\* error, a lookup of a pair returns the pass of the latest add_pass for it,
\* and every handler submit invokes is that latest pass, never one it replaced.
C5_LastWriteWins ==
    /\ \A e1, e2 \in passes : e1.key = e2.key => e1 = e2
    /\ pc = "idle" => err = NoErr
    /\ \A k \in KindPairs :
           lastReg[k] # None => HashMapGet(passes, KeyOf(k)) = Some(lastReg[k])
    /\ \A i \in 1..Len(PassEvents) :
           PassEvents[i].pass =
               lastReg[<<Unwrap(PassEvents[i].arg).kind, Unwrap(PassEvents[i].target).kind>>]

\* C5 witness: two different passes were registered for one pair and the
\* later one has been invoked by submit.
C5_Witness ==
    /\ {"Clear", "ClearAlt"} \subseteq registered
    /\ lastReg[<<"ClearConfig", "ColorTarget">>] = "ClearAlt"
    /\ Len(PassEvents) >= 1
    /\ PassEvents[1].pass = "ClearAlt"

\* The description and the resolved target the inner loop is at.
AtDesc == frame.layers[li].passes[pi]
AtPair == <<AtDesc.kind, Unwrap(fb).kind>>
Dispatching == pc = "pass" /\ pi <= Len(frame.layers[li].passes)

\* C6: when the latest add_pass for the kind pair of the description at hand
\* was add_pass(P), the step submit takes for that description changes the
\* command stream and the target exactly as P.apply does on that description,
\* that target and that stream.
C6_RegisteredPassApplied ==
    [][(Dispatching /\ lastReg[AtPair] # None) =>
           /\ command_buffer' = ApplyEncoder(lastReg[AtPair], AtDesc, Unwrap(fb), command_buffer)
           /\ store' = ApplyStore(lastReg[AtPair], AtDesc, Unwrap(fb), store)
           /\ pc' = "pass"]_vars

\* C6 witness: after add_pass(DrawSolid) only, submit has dispatched a
\* DrawConfig on a ColorTarget and the stream and the target show the effect
\* of DrawSolid.
C6_Witness ==
    /\ registered = {"DrawSolid"}
    /\ pc = "pass"
    /\ pi = 2
    /\ Len(command_buffer) = 1
    /\ command_buffer[1].pass = "DrawSolid"
    /\ store[Unwrap(fb).name] = PassWrites("DrawSolid")

\* C7: when submit stops on a layer whose target name is absent, the error it
\* stops with carries that name.
C7_ErrorNamesMissingTarget ==
    (pc = "panicked" /\ err.kind = "UnwrapNone" /\ MissingLayers # {} /\ li = FirstMissing) =>
        err.target = frame.layers[li].target

\* C8: when submit stops on an unmatched pair, the error carries the target
\* name of the layer it was processing and the Debug rendering of the
\* description it found no handler for, and that rendering tells the
\* descriptions apart.
C8_ErrorNamesTargetAndConfig ==
    /\ err.kind = "NoPass" =>
           /\ ~EverRegistered(AtPair)
           /\ err.target = frame.layers[li].target
           /\ err.target \in TargetNames
           /\ err.pass = <<AtDesc.kind, "{", AtDesc.value, "}">>
    /\ \A c1, c2 \in Configs : DebugFmt(c1) = DebugFmt(c2) => c1 = c2

\* C8 witness: submit stopped on a DrawConfig with value b aimed at "aux", no
\* handler being registered for its pair.
C8_Witness ==
    /\ pc = "panicked"
    /\ err.kind = "NoPass"
    /\ err.target = "aux"
    /\ AtDesc = [kind |-> "DrawConfig", value |-> "b"]

\* The value the last pass aimed at target n leaves, in (layer, pass) order.
WritesTo(n) == SelectSeq(Flat(frame.layers), LAMBDA x : x.target = n)
ExpectedStore(n) ==
    LET w == WritesTo(n) IN
    IF w = <<>>
    THEN Stale
    ELSE PassWrites(lastReg[<<w[Len(w)].arg.kind, KindOfTarget(n)>>])

\* C9: after a completed submission every target holds the value of the last
\* pass aimed at it in (layer order, pass order), a target no layer names is
\* untouched, and flush and cleanup were each performed once.
C9_LastPassWins ==
    pc = "done" =>
        /\ \A n \in DOMAIN frame.targets : store[n] = ExpectedStore(n)
        /\ device.flushes = 1
        /\ device.cleanups = 1

\* C9 witness: the layer [Clear, Draw] on "main" was submitted to completion
\* and "main" holds the value of the Draw pass.
C9_Witness ==
    /\ pc = "done"
    /\ Len(frame.layers) = 1
    /\ frame.layers[1].target = "main"
    /\ Len(frame.layers[1].passes) = 2
    /\ frame.layers[1].passes[1].kind = "ClearConfig"
    /\ frame.layers[1].passes[2].kind = "DrawConfig"
    /\ lastReg[<<"ClearConfig", "ColorTarget">>] = "Clear"
    /\ store["main"] = "one"

\* The kind pair of a recorded invocation.
PairOf(e) == <<Unwrap(e.arg).kind, Unwrap(e.target).kind>>

\* C10: within a submission, two positions with the same (description kind,
\* target kind) get the same handler whatever the description's value and
\* the target's name and contents, a position is unmatched only if no
\* position of its kind pair was matched, and the target a position is run
\* against is the one stored under its layer's target name.
C10_DispatchByKindPair ==
    /\ \A i, j \in 1..Len(PassEvents) :
           PairOf(PassEvents[i]) = PairOf(PassEvents[j]) =>
               PassEvents[i].pass = PassEvents[j].pass
    /\ err.kind = "NoPass" =>
           \A i \in 1..Len(PassEvents) : PairOf(PassEvents[i]) # AtPair
    /\ \A i \in 1..Len(PassEvents) :
           LET n == Flat(frame.layers)[i].target IN
           PassEvents[i].target = <<[kind |-> frame.targets[n], name |-> n]>>
    /\ pc = "pass" =>
           fb = <<[kind |-> frame.targets[frame.layers[li].target],
                   name |-> frame.layers[li].target]>>

\* C10 witness: two DrawConfigs of different values, aimed at targets of
\* different names and of the same kind, were dispatched to the same handler.
C10_Witness ==
    /\ Len(PassEvents) = 2
    /\ PairOf(PassEvents[1]) = PairOf(PassEvents[2])
    /\ Unwrap(PassEvents[1].arg).value # Unwrap(PassEvents[2].arg).value
    /\ Unwrap(PassEvents[1].target).name # Unwrap(PassEvents[2].target).name
    /\ PassEvents[1].pass = PassEvents[2].pass

\* C11: whenever submit finds a handler, the pass behind it was registered for
\* the kind of the description and the kind of the target at hand, so both
\* downcasts of the thunk succeed; every invocation made was of a pass bound to
\* the kinds it was given, and the only unwrap() that ever panics is the one
\* on a layer's unresolved target.
C11_DowncastsSucceed ==
    /\ (Dispatching /\ Lookup # NoneOpt) =>
           /\ PassArg(Unwrap(Lookup)) = AtDesc.kind
           /\ PassTarget(Unwrap(Lookup)) = Unwrap(fb).kind
           /\ DowncastRef(AtDesc, PassArg(Unwrap(Lookup))) = Some(AtDesc)
           /\ DowncastRef(Unwrap(fb), PassTarget(Unwrap(Lookup))) = fb
    /\ \A i \in 1..Len(PassEvents) :
           PairOf(PassEvents[i]) = <<PassArg(PassEvents[i].pass), PassTarget(PassEvents[i].pass)>>
    /\ err.kind = "UnwrapNone" =>
           frame.layers[li].target \notin DOMAIN frame.targets

\* C11 witness: with a ClearConfig handler registered for ColorTarget, submit
\* ran it on a ColorTarget and then met a ClearConfig aimed at a DepthTarget:
\* it stopped on the unmatched pair, not inside a thunk.
C11_Witness ==
    /\ pc = "panicked"
    /\ err.kind = "NoPass"
    /\ Len(PassEvents) = 1
    /\ PairOf(PassEvents[1]) = <<"ClearConfig", "ColorTarget">>
    /\ AtPair = <<"ClearConfig", "DepthTarget">>

\* The commands the passes of the current submission appended, in order.
OwnCommands ==
    [i \in 1..Len(PassEvents) |->
        Marker(PassEvents[i].pass, Unwrap(PassEvents[i].arg), Unwrap(PassEvents[i].target))]

\* C12: over any sequence of submissions, aborted ones included, the encoder is
\* empty between submissions, holds exactly the commands of the running
\* submission's own passes until the flush, and the flush hands the device
\* exactly those.
C12_StreamOwnedBySubmission ==
    /\ pc = "idle" => command_buffer = <<>>
    /\ pc \in {"layer", "pass", "flush", "panicked"} => command_buffer = OwnCommands
    /\ pc \in {"cleanup", "done"} => device.submitted = OwnCommands

\* C13: from the call of submit to its return or its panic, no step adds,
\* removes or replaces a registry entry, and none changes the frame's layer
\* vector, a layer's pass list or the names in the target collection.
C13_SubmitFrame ==
    [][/\ (pc # "idle" \/ pc' # "idle") => passes' = passes
       /\ (pc # "idle" /\ pc' # "idle") =>
              /\ frame'.layers = frame.layers
              /\ DOMAIN frame'.targets = DOMAIN frame.targets
              /\ frame'.targets = frame.targets
              /\ DOMAIN store' = DOMAIN store]_vars

\* C13 witness: a submission ran a pass that changed its target and was
\* completed, the registry holding two entries.
C13_Witness ==
    /\ pc = "done"
    /\ Cardinality(passes) = 2
    /\ Len(PassEvents) = 2
    /\ \E n \in DOMAIN store : store[n] # Stale

\* The keys of the registry.
KeysOf(m) == {e.key : e \in m}

\* C14: a renderer starts with an empty registry, and a step of add_pass for a
\* pass P of kind pair (A, T) leaves the entry of every other key as it was,
\* holds P under the key of (A, T) afterwards, grows the registry by one entry
\* when that key was absent and by none when it was present, and does not
\* touch the command stream.
C14_AddPassFrame ==
    /\ passes = {}
    /\ [][(pc = "idle" /\ pc' = "idle") =>
             \E p \in PassNames :
                 LET k == KeyOf(<<PassArg(p), PassTarget(p)>>) IN
                 /\ HashMapGet(passes', k) = Some(p)
                 /\ {e \in passes' : e.key # k} = {e \in passes : e.key # k}
                 /\ Cardinality(passes') =
                        Cardinality(passes) + (IF k \in KeysOf(passes) THEN 0 ELSE 1)
                 /\ command_buffer' = command_buffer]_vars

\* C14 witness: the renderer went through add_pass for all three passes, two
\* of them for the same pair: the registry holds two entries.
C14_Witness ==
    /\ pc = "idle"
    /\ registered = PassNames
    /\ Cardinality(passes) = 2
    /\ KeysOf(passes) = {KeyOf(<<"ClearConfig", "ColorTarget">>), KeyOf(<<"DrawConfig", "ColorTarget">>)}

\* The layer the outer loop is at has no passes.
AtEmptyLayer == li \in 1..Len(frame.layers) /\ frame.layers[li].passes = <<>>
AtTargetPresent == frame.layers[li].target \in DOMAIN frame.targets

\* C15: the target of a layer is resolved when the layer is entered, whatever
\* the number of its passes. The inner loop is reached only with the layer's
\* target resolved; a submission with a pass-less layer whose target is absent
\* never gets to the flush or the cleanup and stops at that layer at the
\* latest; and the steps taken for a pass-less layer whose target exists leave
\* the command stream, the targets, the device and the error untouched.
C15_ResolvePerLayer ==
    /\ [](/\ pc = "pass" => (AtTargetPresent /\ fb = ResolveTarget(frame, frame.layers[li].target))
          /\ \A l \in 1..Len(frame.layers) :
                 (/\ frame.layers[l].passes = <<>>
                  /\ frame.layers[l].target \notin DOMAIN frame.targets
                  /\ Submitting) =>
                     /\ pc \notin {"flush", "cleanup", "done"}
                     /\ li <= l
                     /\ NoDeviceWork)
    /\ [][/\ (pc = "layer" /\ AtEmptyLayer /\ ~AtTargetPresent) =>
                 /\ pc' = "panicked"
                 /\ err'.kind = "UnwrapNone"
                 /\ UNCHANGED <<command_buffer, store, device, trace, li>>
          /\ (pc = "layer" /\ AtEmptyLayer /\ AtTargetPresent) =>
                 /\ pc' = "pass"
                 /\ UNCHANGED <<command_buffer, store, device, trace, err, li>>
          /\ (pc = "pass" /\ AtEmptyLayer) =>
                 /\ pc' = "layer"
                 /\ li' = li + 1
                 /\ UNCHANGED <<command_buffer, store, device, trace, err>>]_vars

\* C15 witness: a pass-less layer whose target exists was gone through without
\* effect, and submit then stopped on a pass-less layer whose target is absent.
C15_Witness ==
    /\ pc = "panicked"
    /\ err.kind = "UnwrapNone"
    /\ li = 2
    /\ frame.layers[1].passes = <<>>
    /\ frame.layers[1].target \in DOMAIN frame.targets
    /\ frame.layers[2].passes = <<>>
    /\ frame.layers[2].target \notin DOMAIN frame.targets
    /\ trace = <<>>
    /\ device = NewDevice

\* How far submit has got: the statement after the loops it is at, then the
\* layer, then whether it is inside the layer, then the pass.
Position ==
    << CASE pc \in {"layer", "pass"} -> 0
         [] pc = "flush" -> 1
         [] pc = "cleanup" -> 2
         [] OTHER -> 3,
       li,
       IF pc = "pass" THEN 1 ELSE 0,
       IF pc = "pass" THEN pi ELSE 0 >>

RECURSIVE LexLess(_, _)
LexLess(a, b) ==
    /\ a # <<>>
    /\ \/ Head(a) < Head(b)
       \/ Head(a) = Head(b) /\ LexLess(Tail(a), Tail(b))

Running == pc \in {"layer", "pass", "flush", "cleanup"}
Finished == pc \in {"done", "panicked"}

\* The number of registry lookups the current submission has made.
Lookups == Len(PassEvents) + (IF err.kind = "NoPass" THEN 1 ELSE 0)

\* C16: a running submit ends, completed or panicked; each of its steps moves
\* it forward, so it never comes back to a position; it completes exactly for
\* a frame whose targets all resolve and whose pairs are all registered, after
\* invoking every pass, flushing and cleaning up, and otherwise stops at the
\* first layer or description that is not; it makes at most one lookup per
\* description.
C16_Terminates ==
    /\ Running ~> Finished
    /\ [][Running => LexLess(Position, Position')]_vars
    /\ [](pc = "done" =>
              /\ AllResolve /\ AllRegistered /\ err = NoErr
              /\ Len(PassEvents) = Len(Flat(frame.layers))
              /\ device.flushes = 1 /\ device.cleanups = 1)
    /\ [](pc = "panicked" =>
              /\ ~(AllResolve /\ AllRegistered)
              /\ err.kind \in {"UnwrapNone", "NoPass"}
              /\ err.kind = "UnwrapNone" =>
                     (li = FirstMissing /\ Len(PassEvents) = Before(li, 1))
              /\ err.kind = "NoPass" =>
                     (/\ lastReg[AtPair] = None
                      /\ Len(PassEvents) = Before(li, pi)
                      /\ \A l \in 1..li : frame.layers[l].target \in DOMAIN frame.targets)
              /\ device = NewDevice)
    /\ [](Lookups <= Len(Flat(frame.layers)))

\* C16 witness: a submission of two layers with passes has completed.
C16_Witness ==
    /\ pc = "done"
    /\ Len(frame.layers) = 2
    /\ Len(PassEvents) = 2
    /\ Lookups = 2
    /\ Unwrap(PassEvents[1].target).name # Unwrap(PassEvents[2].target).name

====
